---- MODULE Spec2Model ----
(***************************************************************************)
(* Model of impactutils: the ColorPalette class (colors/cpalette.py) and   *)
(* the station table reader and writers (io/table.py).                     *)
(*                                                                         *)
(* Numbers that the code holds as floats are exact rationals <<n, d>> in   *)
(* lowest terms with d > 0; a division by zero done by numpy gives         *)
(* <<1, 0>> (inf), <<-1, 0>> (-inf) or <<0, 0>> (nan).  Strings that the   *)
(* code inspects character by character (column names, station codes) are  *)
(* sequences of one-character strings.                                     *)
(***************************************************************************)
EXTENDS Integers, Sequences, FiniteSets, TLC

VARIABLES pal, args, file, err, last, value, result

\* the preset registry, the rgb0 and rgb1 lists of the last caller of the
\* constructor as the call left them, and the number of constructor calls
VARIABLES registry, caller, calls

VARIABLES wb, outcome

\* the table given to a writer and what the writer left behind
VARIABLES frame, written

palvars ==
    <<pal, args, file, err, last, value, result, registry, caller, calls>>

readvars == <<wb, outcome>>

writevars == <<frame, written>>

-----------------------------------------------------------------------------
(* Bounds of the model *)

\* longest input sequence handed to ColorPalette()
MaxLen == 2

\* most comment lines in a palette file
MaxLines == 2

\* the most constructor calls in a run that builds palettes one after another
MaxCalls == 2

-----------------------------------------------------------------------------
(* Rational arithmetic (the code's float arithmetic, kept exact) *)

Abs(n) == IF n < 0 THEN -n ELSE n

Sign(n) == IF n < 0 THEN -1 ELSE IF n > 0 THEN 1 ELSE 0

RECURSIVE GCD(_, _)
GCD(a, b) == IF b = 0 THEN a ELSE GCD(b, a % b)

\* n / d as numpy divides: a zero divisor gives inf, -inf or nan
Rat(n, d) ==
    IF d = 0 THEN <<Sign(n), 0>>
    ELSE LET g == GCD(Abs(n), Abs(d))
             s == IF d < 0 THEN -1 ELSE 1
         IN  <<(s * n) \div g, (s * d) \div g>>

IsFinite(q) == q[2] # 0

IsNaN(q) == q = <<0, 0>>

RatLess(p, q) == p[1] * q[2] < q[1] * p[2]

RatAdd(p, q) == Rat(p[1] * q[2] + q[1] * p[2], p[2] * q[2])

RatSub(p, q) == Rat(p[1] * q[2] - q[1] * p[2], p[2] * q[2])

RatMul(p, q) == Rat(p[1] * q[1], p[2] * q[2])

RatDiv(p, q) == Rat(p[1] * q[2], p[2] * q[1])

\* floor of a finite rational
Floor(q) == q[1] \div q[2]

\* np.clip(q, 0.0, 1.0)
Clip01(q) == IF RatLess(q, <<0, 1>>) THEN <<0, 1>>
             ELSE IF RatLess(<<1, 1>>, q) THEN <<1, 1>> ELSE q

SeqMin(s) == CHOOSE m \in {s[i] : i \in DOMAIN s} : \A i \in DOMAIN s : m <= s[i]

SeqMax(s) == CHOOSE m \in {s[i] : i \in DOMAIN s} : \A i \in DOMAIN s : m >= s[i]

-----------------------------------------------------------------------------
(* The preset registry *)

MMI == [z0   |-> <<0, 1, 2, 3, 4, 5, 6, 7, 8, 9>>,
        z1   |-> <<1, 2, 3, 4, 5, 6, 7, 8, 9, 10>>,
        rgb0 |-> << <<255, 255, 255>>, <<255, 255, 255>>, <<191, 204, 255>>,
                    <<160, 230, 255>>, <<128, 255, 255>>, <<122, 255, 147>>,
                    <<255, 255, 0>>, <<255, 200, 0>>, <<255, 145, 0>>,
                    <<255, 0, 0>> >>,
        rgb1 |-> << <<255, 255, 255>>, <<191, 204, 255>>, <<160, 230, 255>>,
                    <<128, 255, 255>>, <<122, 255, 147>>, <<255, 255, 0>>,
                    <<255, 200, 0>>, <<255, 145, 0>>, <<255, 0, 0>>,
                    <<200, 0, 0>> >>,
        nan_color |-> <<0, 0, 0, 0>>]

POP == [z0   |-> <<0, 5, 50, 100, 500, 1000, 5000, 10000>>,
        z1   |-> <<5, 50, 100, 500, 1000, 5000, 10000, 50000>>,
        rgb0 |-> << <<255, 255, 255>>, <<191, 191, 191>>, <<159, 159, 159>>,
                    <<127, 127, 127>>, <<95, 95, 95>>, <<63, 63, 63>>,
                    <<31, 31, 31>>, <<0, 0, 0>> >>,
        rgb1 |-> << <<255, 255, 255>>, <<191, 191, 191>>, <<159, 159, 159>>,
                    <<127, 127, 127>>, <<95, 95, 95>>, <<63, 63, 63>>,
                    <<31, 31, 31>>, <<0, 0, 0>> >>,
        nan_color |-> <<0, 0, 0, 0>>]

PALETTES == [mmi |-> MMI, pop |-> POP]

-----------------------------------------------------------------------------
(* ColorPalette.__init__ *)

\* the sequences a caller may hand to the constructor
ZVals == 0 .. 2

Colors == { <<255, 255, 255>>, <<200, 0, 0>> }

SeqsUpTo(S, n) == UNION { [1 .. k -> S] : k \in 0 .. n }

NanColors == { <<0, 0, 0, 0>>, <<1, 1, 1, 1>> }

NoFile == [lines |-> <<>>, rows |-> <<>>]

NoArgs == [z0 |-> <<>>, z1 |-> <<>>, rgb0 |-> <<>>, rgb1 |-> <<>>]

NoPalette == [built |-> FALSE, name |-> "", vmin |-> 0, vmax |-> 0,
              vminNp |-> FALSE, vmaxNp |-> FALSE,
              nan_color |-> <<0, 0, 0, 0>>,
              cdict |-> [red |-> <<>>, green |-> <<>>, blue |-> <<>>]]

\* the test of line 70: a chain a != b != c != d is (a != b) and (b != c) and (c != d)
LengthsRejected(z0, z1, rgb0, rgb1) ==
    Len(z0) # Len(z1) /\ Len(z1) # Len(rgb0) /\ Len(rgb0) # Len(rgb1)

\* what the constructor raises, "none" when it returns: the Exception of
\* line 71 ("LengthMismatch"), numpy's ValueError for the minimum of an
\* empty array, or the IndexError of the loop of lines 98-107
CtorError(z0, z1, rgb0, rgb1) ==
    IF LengthsRejected(z0, z1, rgb0, rgb1) THEN "LengthMismatch"
    ELSE IF Len(z0) = 0 \/ Len(z1) = 0 THEN "ValueError"
    ELSE IF Len(rgb0) < Len(z0) \/ Len(rgb1) < Len(z0) THEN "IndexError"
    ELSE "none"

\* Adjust without the shift by the minimum
AdjustFromZero(z, vmin, vmax) == [i \in DOMAIN z |-> Rat(z[i], vmax - vmin)]

\* adj_z0 and adj_z1 of lines 80-81
Adjust(z, vmin, vmax) == [i \in DOMAIN z |-> Rat(z[i] - vmin, vmax - vmin)]

\* B/255 and E/255: the dummy values of lines 84-85, as row entries
DummyB == <<-999, 1000>>

DummyE == <<999, 1000>>

\* ChannelRows with the two colour columns of a row exchanged
ChannelRowsSwapped(z0, z1, rgb0, rgb1, c) ==
    LET vmin   == SeqMin(z0)
        vmax   == SeqMax(z1)
        adj_z0 == Adjust(z0, vmin, vmax)
        adj_z1 == Adjust(z1, vmin, vmax)
        x      == Append(adj_z0, adj_z1[Len(adj_z1)])
        rgb0_t == [i \in 1 .. Len(rgb0) + 1 |->
                      IF i <= Len(rgb0) THEN Rat(rgb0[i][c], 255) ELSE DummyE]
        rgb1_t == [i \in 1 .. Len(rgb1) + 1 |->
                      IF i = 1 THEN DummyB ELSE Rat(rgb1[i - 1][c], 255)]
    IN  [i \in 1 .. Len(x) |-> <<x[i], rgb0_t[i], rgb1_t[i]>>]

\* the rows (x, y0, y1) of one channel c (1 red, 2 green, 3 blue), lines 88-107
ChannelRows(z0, z1, rgb0, rgb1, c) ==
    LET vmin   == SeqMin(z0)
        vmax   == SeqMax(z1)
        adj_z0 == Adjust(z0, vmin, vmax)
        adj_z1 == Adjust(z1, vmin, vmax)
        x      == Append(adj_z0, adj_z1[Len(adj_z1)])
        rgb0_t == [i \in 1 .. Len(rgb0) + 1 |->
                      IF i <= Len(rgb0) THEN Rat(rgb0[i][c], 255) ELSE DummyE]
        rgb1_t == [i \in 1 .. Len(rgb1) + 1 |->
                      IF i = 1 THEN DummyB ELSE Rat(rgb1[i - 1][c], 255)]
    IN  [i \in 1 .. Len(x) |-> <<x[i], rgb1_t[i], rgb0_t[i]>>]

BuildCdict(z0, z1, rgb0, rgb1) ==
    [red   |-> ChannelRows(z0, z1, rgb0, rgb1, 1),
     green |-> ChannelRows(z0, z1, rgb0, rgb1, 2),
     blue  |-> ChannelRows(z0, z1, rgb0, rgb1, 3)]

NewPalette(name, z0, z1, rgb0, rgb1, nan_color) ==
    [built |-> TRUE, name |-> name,
     vmin |-> SeqMin(z0), vmax |-> SeqMax(z1),
     vminNp |-> TRUE, vmaxNp |-> TRUE,
     nan_color |-> nan_color,
     cdict |-> BuildCdict(z0, z1, rgb0, rgb1)]

NoResult == [kind |-> "none", rgba |-> <<>>, error |-> ""]

NoCaller == [rgb0 |-> <<>>, rgb1 |-> <<>>]

\* DummyRows with the dummy rows put into the lists passed in
DummyRowsInPlace(rgb0, rgb1) ==
    [rgb0 |-> Append(rgb0, <<254, 254, 254>>),
     rgb1 |-> << <<-254, -254, -254>> >> \o rgb1]

\* lines 88-91: the dummy rows go to the copies rgb0_t and rgb1_t, and the
\* lists passed in are left as they were
DummyRows(rgb0, rgb1) == [rgb0 |-> rgb0, rgb1 |-> rgb1]

\* ColorPalette(name, z0, z1, rgb0, rgb1, nan_color): the object it leaves behind
ColorPalette(name, z0, z1, rgb0, rgb1, nan_color) ==
    LET e == CtorError(z0, z1, rgb0, rgb1)
    IN  /\ args' = [z0 |-> z0, z1 |-> z1, rgb0 |-> rgb0, rgb1 |-> rgb1]
        /\ err' = e
        /\ pal' = IF e = "none"
                  THEN NewPalette(name, z0, z1, rgb0, rgb1, nan_color)
                  ELSE NoPalette
        /\ value' = 0
        /\ result' = NoResult
        /\ caller' = IF e \in {"LengthMismatch", "ValueError"}
                     THEN [rgb0 |-> rgb0, rgb1 |-> rgb1]
                     ELSE DummyRows(rgb0, rgb1)
        /\ registry' = registry
        /\ calls' = calls + 1

-----------------------------------------------------------------------------
(* The colormap that __init__ hands the table to (line 110) and that       *)
(* getDataColor calls (line 239): matplotlib's LinearSegmentedColormap     *)
(* with its default lookup table of 256 entries per channel.               *)

\* entries of the lookup table (the default N of LinearSegmentedColormap)
LutSize == 256

\* the table is rejected (ValueError, at the first lookup) unless its
\* positions start at 0, end at 1 and never decrease
RowsValid(rows) ==
    /\ Len(rows) >= 2
    /\ rows[1][1] = <<0, 1>>
    /\ rows[Len(rows)][1] = <<1, 1>>
    /\ \A i \in 1 .. Len(rows) - 1 : ~RatLess(rows[i + 1][1], rows[i][1])

\* entry k (0-based) of one channel's lookup table
LutEntry(rows, k) ==
    IF k = 0 THEN Clip01(rows[1][3])
    ELSE IF k = LutSize - 1 THEN Clip01(rows[Len(rows)][2])
    ELSE LET xk   == <<k, LutSize - 1>>
             \* np.searchsorted: the first row at or after position k
             ind  == CHOOSE i \in 2 .. Len(rows) :
                        /\ ~RatLess(rows[i][1], xk)
                        /\ \A j \in 1 .. i - 1 : RatLess(rows[j][1], xk)
             lo   == rows[ind - 1]
             hi   == rows[ind]
             dist == RatDiv(RatSub(xk, lo[1]), RatSub(hi[1], lo[1]))
         IN  Clip01(RatAdd(RatMul(dist, RatSub(hi[2], lo[3])), lo[3]))

\* the index a normalised value t selects: under and over the range the
\* first and the last entry
LutIndex(t) ==
    IF ~IsFinite(t) THEN (IF t[1] < 0 THEN 0 ELSE LutSize - 1)
    ELSE LET xa == RatMul(t, <<LutSize, 1>>)
         IN  IF RatLess(xa, <<0, 1>>) THEN 0
             ELSE IF ~RatLess(xa, <<LutSize, 1>>) THEN LutSize - 1
             ELSE Floor(xa)

\* self.cmap(t): an RGBA colour, the nan colour for nan, or ValueError
CmapCall(cdict, nan_color, t) ==
    IF ~RowsValid(cdict.red)
    THEN [kind |-> "error", rgba |-> <<>>, error |-> "ValueError"]
    ELSE IF IsNaN(t)
    THEN [kind |-> "rgba",
          rgba |-> [i \in 1 .. 4 |-> <<nan_color[i], 1>>],
          error |-> ""]
    ELSE LET k == LutIndex(t)
         IN  [kind |-> "rgba",
              rgba |-> <<LutEntry(cdict.red, k), LutEntry(cdict.green, k),
                         LutEntry(cdict.blue, k), <<1, 1>> >>,
              error |-> ""]

-----------------------------------------------------------------------------
(* ColorPalette.getDataColor and the vmin / vmax properties *)

\* line 238: Python raises on a zero divisor when both bounds are plain
\* Python numbers (assigned through the setters); numpy scalars (set by
\* __init__) divide to inf or nan instead
NormRaises(p, v) == p.vmax - p.vmin = 0 /\ ~p.vminNp /\ ~p.vmaxNp

NormValue(p, v) == Rat(v - p.vmin, p.vmax - p.vmin)

DataColor(p, v) ==
    IF NormRaises(p, v)
    THEN [kind |-> "error", rgba |-> <<>>, error |-> "ZeroDivisionError"]
    ELSE CmapCall(p.cdict, p.nan_color, NormValue(p, v))

\* the values asked for and the values assigned to vmin and vmax
Values == {0, 1, 2, 5, 10}

SetVals == {0, 2}

getDataColor(v) ==
    /\ pal.built
    /\ LET r == DataColor(pal, v)
       IN  /\ result' = r
           /\ err' = r.error
    /\ value' = v
    /\ last' = "getDataColor"
    /\ UNCHANGED <<pal, args, file, registry, caller, calls>>

\* a setter that also moves the table's positions to the new range
SetVminRescaling(p, v) ==
    LET move(rows) ==
            [i \in DOMAIN rows |->
                <<Rat(rows[i][1][1] * (p.vmax - p.vmin)
                        + (p.vmin - v) * rows[i][1][2],
                      (p.vmax - v) * rows[i][1][2]),
                  rows[i][2], rows[i][3]>>]
    IN  [p EXCEPT !.vmin = v, !.vminNp = FALSE,
                  !.cdict = [red   |-> move(p.cdict.red),
                             green |-> move(p.cdict.green),
                             blue  |-> move(p.cdict.blue)]]

SetVmin(p, v) == [p EXCEPT !.vmin = v, !.vminNp = FALSE]

SetVmax(p, v) == [p EXCEPT !.vmax = v, !.vmaxNp = FALSE]

vmin(v) ==
    /\ pal.built
    /\ pal' = SetVmin(pal, v)
    /\ err' = "none"
    /\ last' = "vmin"
    /\ UNCHANGED <<args, file, value, result, registry, caller, calls>>

vmax(v) ==
    /\ pal.built
    /\ pal' = SetVmax(pal, v)
    /\ err' = "none"
    /\ last' = "vmax"
    /\ UNCHANGED <<args, file, value, result, registry, caller, calls>>

-----------------------------------------------------------------------------
(* ColorPalette.fromPreset and ColorPalette.fromFile *)

Presets == {"mmi", "pop", "jet"}

\* the Exception of line 123 is "UnknownPreset"
Preset(preset) ==
    /\ IF preset \notin DOMAIN registry
       THEN /\ err' = "UnknownPreset"
            /\ pal' = NoPalette
            /\ args' = NoArgs
            /\ value' = 0
            /\ result' = NoResult
            /\ caller' = NoCaller
            /\ registry' = registry
            /\ calls' = calls
       ELSE LET P == registry[preset]
            IN  ColorPalette(preset, P.z0, P.z1, P.rgb0, P.rgb1, P.nan_color)
    /\ file' = NoFile
    /\ last' = "fromPreset"

\* the first palette built
fromPreset(preset) == last = "start" /\ Preset(preset)

\* a line of a palette file that starts with '#': the variable it defines
\* ("" for a plain comment) and the text after the colon, parsed
CommentLines ==
    [directive : {""}, color : {<<0, 0, 0, 0>>}, text : {""}]
    \cup [directive : {"nan_color"}, color : NanColors, text : {""}]
    \cup [directive : {"name"}, color : {<<0, 0, 0, 0>>}, text : {"test"}]

\* line.startswith('#$' + variable)
StartsWithDirective(line, variable) == line.directive = variable

\* lines 167-178: the nan colour and the name after the lines read so far
RECURSIVE ScanLines(_, _)
ScanLines(lines, acc) ==
    IF lines = <<>> THEN acc
    ELSE LET line == Head(lines)
             nxt  == IF StartsWithDirective(line, "nan_color")
                     THEN [acc EXCEPT !.nan_color = line.color]
                     ELSE IF StartsWithDirective(line, "nan_color")
                     THEN [acc EXCEPT !.name = line.text]
                     ELSE acc
         IN  ScanLines(Tail(lines), nxt)

FileDefaults == [nan_color |-> <<0, 0, 0, 0>>, name |-> "generic"]

\* the data tables of the files read: the one of the docstring and a
\* single interval
FileTables ==
    { << [Z0 |-> 0, R0 |-> 0, G0 |-> 0, B0 |-> 0,
          Z1 |-> 1, R1 |-> 85, G1 |-> 85, B1 |-> 85],
         [Z0 |-> 1, R0 |-> 85, G0 |-> 85, B0 |-> 85,
          Z1 |-> 2, R1 |-> 170, G1 |-> 170, B1 |-> 170],
         [Z0 |-> 2, R0 |-> 170, G0 |-> 170, B0 |-> 170,
          Z1 |-> 3, R1 |-> 255, G1 |-> 255, B1 |-> 255] >>,
      << [Z0 |-> 0, R0 |-> 255, G0 |-> 255, B0 |-> 255,
          Z1 |-> 2, R1 |-> 200, G1 |-> 0, B1 |-> 0] >> }

Files == [lines : SeqsUpTo(CommentLines, MaxLines), rows : FileTables]

fromFile(f) ==
    LET meta == ScanLines(f.lines, FileDefaults)
        df   == f.rows
        z0   == [i \in DOMAIN df |-> df[i].Z0]
        z1   == [i \in DOMAIN df |-> df[i].Z1]
        rgb0 == [i \in DOMAIN df |-> <<df[i].R0, df[i].G0, df[i].B0>>]
        rgb1 == [i \in DOMAIN df |-> <<df[i].R1, df[i].G1, df[i].B1>>]
    IN  /\ last = "start"
        /\ ColorPalette(meta.name, z0, z1, rgb0, rgb1, meta.nan_color)
        /\ file' = f
        /\ last' = "fromFile"

-----------------------------------------------------------------------------
(* The palette's life: construction, rescaling, queries *)

\* the intervals (z0, z1, rgb0, rgb1) a caller builds a palette from:
\* adjoining, empty, reversed and overlapping ranges
Intervals ==
    { <<0, 1>>, <<1, 2>>, <<0, 0>>, <<2, 1>>, <<0, 2>> }
    \X { << <<255, 255, 255>>, <<200, 0, 0>> >>,
         << <<200, 0, 0>>, <<255, 255, 255>> >> }

\* a direct construction from sequences of one common length
Construct(longest) ==
    /\ \E n \in 0 .. longest :
         \E iv \in [1 .. n -> Intervals] :
           ColorPalette("custom",
                        [i \in 1 .. n |-> iv[i][1][1]],
                        [i \in 1 .. n |-> iv[i][1][2]],
                        [i \in 1 .. n |-> iv[i][2][1]],
                        [i \in 1 .. n |-> iv[i][2][2]],
                        <<0, 0, 0, 0>>)
    /\ file' = NoFile
    /\ last' = "init"

\* the first palette built
New == last = "start" /\ Construct(MaxLen)

\* a direct construction from sequences of any four lengths
NewAnyLengths ==
    /\ last = "start"
    /\ \E z0 \in SeqsUpTo(ZVals, MaxLen), z1 \in SeqsUpTo(ZVals, MaxLen),
       rgb0 \in SeqsUpTo(Colors, MaxLen), rgb1 \in SeqsUpTo(Colors, MaxLen) :
         ColorPalette("custom", z0, z1, rgb0, rgb1, <<0, 0, 0, 0>>)
    /\ file' = NoFile
    /\ last' = "init"

PaletteInit ==
    /\ pal = NoPalette
    /\ args = NoArgs
    /\ file = NoFile
    /\ err = "none"
    /\ last = "start"
    /\ value = 0
    /\ result = NoResult
    /\ registry = PALETTES
    /\ caller = NoCaller
    /\ calls = 0

-----------------------------------------------------------------------------
(* io/table.py: names.  A name is a sequence of one-character strings.     *)

UpperLetters == <<"A", "B", "C", "D", "E", "F", "G", "H", "I", "J", "K", "L", "M",
                  "N", "O", "P", "Q", "R", "S", "T", "U", "V", "W", "X", "Y", "Z">>

LowerLetters == <<"a", "b", "c", "d", "e", "f", "g", "h", "i", "j", "k", "l", "m",
                  "n", "o", "p", "q", "r", "s", "t", "u", "v", "w", "x", "y", "z">>

AZ == {UpperLetters[i] : i \in 1 .. 26}

\* the upper-case and the lower-case form of each letter
ToUpper == [c \in {LowerLetters[i] : i \in 1 .. 26} |->
               UpperLetters[CHOOSE i \in 1 .. 26 : LowerLetters[i] = c]]

ToLower == [c \in AZ |-> LowerLetters[CHOOSE i \in 1 .. 26 : UpperLetters[i] = c]]

UpperChar(c) == IF c \in DOMAIN ToUpper THEN ToUpper[c] ELSE c

LowerChar(c) == IF c \in DOMAIN ToLower THEN ToLower[c] ELSE c

\* str.upper() and str.lower()
Upper(s) == [i \in DOMAIN s |-> UpperChar(s[i])]

Lower(s) == [i \in DOMAIN s |-> LowerChar(s[i])]

\* str.startswith
StartsWith(s, prefix) ==
    Len(prefix) <= Len(s) /\ \A i \in 1 .. Len(prefix) : s[i] = prefix[i]

Col_STATION == <<"S", "T", "A", "T", "I", "O", "N">>

Col_LAT == <<"L", "A", "T">>

Col_LON == <<"L", "O", "N">>

Col_NETID == <<"N", "E", "T", "I", "D">>

Col_NAME == <<"N", "A", "M", "E">>

Col_DISTANCE == <<"D", "I", "S", "T", "A", "N", "C", "E">>

Col_REFERENCE == <<"R", "E", "F", "E", "R", "E", "N", "C", "E">>

Col_INTENSITY == <<"I", "N", "T", "E", "N", "S", "I", "T", "Y">>

Col_SOURCE == <<"S", "O", "U", "R", "C", "E">>

Col_LOC == <<"L", "O", "C">>

Col_INSTTYPE == <<"I", "N", "S", "T", "T", "Y", "P", "E">>

Col_ELEV == <<"E", "L", "E", "V">>

Col_NRESP == <<"N", "R", "E", "S", "P">>

Col_INTENSITY_STDDEV == <<"I", "N", "T", "E", "N", "S", "I", "T", "Y", "_", "S", "T", "D", "D", "E", "V">>

REQUIRED_COLUMNS == {Col_STATION, Col_LAT, Col_LON, Col_NETID}

OPTIONAL == {Col_NAME, Col_DISTANCE, Col_REFERENCE, Col_INTENSITY, Col_SOURCE,
             Col_LOC, Col_INSTTYPE, Col_ELEV, Col_NRESP, Col_INTENSITY_STDDEV}

\* a pattern is a sequence of character classes; cp.match(name) holds when
\* the pattern matches at the start of the name
CHANNEL_GROUPS == << << <<AZ, AZ, {"E"}>>, <<AZ, AZ, {"N"}>>, <<AZ, AZ, {"Z"}>> >>,
                     << <<AZ, AZ, {"1"}>>, <<AZ, AZ, {"2"}>>, <<AZ, AZ, {"Z"}>> >>,
                     << <<{"H"}, {"1"}>>, <<{"H"}, {"2"}>>, <<{"Z"}>> >>,
                     << <<{"U"}, {"N"}, {"K"}>> >> >>

ReMatch(pat, name) ==
    Len(pat) <= Len(name) /\ \A i \in 1 .. Len(pat) : name[i] \in pat[i]

Pga == <<"P", "G", "A">>

Pgv == <<"P", "G", "V">>

Sa03 == <<"S", "A", "(", "0", ".", "3", ")">>

Sa10 == <<"S", "A", "(", "1", ".", "0", ")">>

Sa30 == <<"S", "A", "(", "3", ".", "0", ")">>

PGM_COLS == {Pga, Pgv, Sa03, Sa10, Sa30}

-----------------------------------------------------------------------------
(* read_excel *)

\* most channel columns in a sheet
MaxChannels == 3

\* the text of cell A1
ReferenceCells == { <<"r", "e", "f", "e", "r", "e", "n", "c", "e">>,
                    <<"R", "e", "f", "e", "r", "e", "n", "c", "e">>,
                    <<"S", "t", "a", "t", "i", "o", "n">> }

\* the channel columns a sheet may have
ChannelNames == { <<"H", "H", "E">>, <<"H", "H", "N">>, <<"H", "H", "Z">>,
                  <<"H", "1">>, <<"U", "N", "K">>, <<"X", "X", "9">> }

\* the measurement columns a channel may have under it, as typed in the sheet
SubHeaders == { {}, { <<"p", "g", "a">> }, { <<"P", "S", "A", "0", "3">> }, { <<"S", "A", "(", "0", ".", "3", ")">> } }

\* the kind of text in the measurement cells
CellKinds == {"number", "blank", "text"}

\* len(list(filter(pat.match, channels))) > 0
AnyMatch(pat, channels) == \E c \in channels : ReMatch(pat, c)

\* num_channels of lines 170-174
NumChannels(group, channels) ==
    Cardinality({i \in 1 .. Len(group) : AnyMatch(group[i], channels)})

\* GroupValid without the test that a lone match is the only channel
GroupValidLoneMatch(group, channels) ==
    \/ NumChannels(group, channels) = 1
    \/ /\ NumChannels(group, channels) > 1
       /\ (AnyMatch(group[1], channels) \/ AnyMatch(group[2], channels))

\* the body of the loop of lines 169-185 for one group
GroupValid(group, channels) ==
    \/ NumChannels(group, channels) = 1 /\ Cardinality(channels) = 1
    \/ /\ ~(NumChannels(group, channels) = 1 /\ Cardinality(channels) = 1)
       /\ NumChannels(group, channels) > 1
       /\ (AnyMatch(group[1], channels) \/ AnyMatch(group[2], channels))

\* valid of lines 167-187
ChannelsValid(channels) ==
    IF channels # {}
    THEN \E g \in 1 .. Len(CHANNEL_GROUPS) : GroupValid(CHANNEL_GROUPS[g], channels)
    ELSE TRUE

NoSheet == [a1 |-> <<>>, multi |-> FALSE, top |-> {}, sub |-> <<>>,
            cells |-> "number"]

NoFrame == [multi |-> FALSE, top |-> {}, sub |-> <<>>, station_from_index |-> FALSE]

Raised(e) == [error |-> e, df |-> NoFrame]

\* the columns of the frame after lines 135-154: read with two header rows
\* both levels are upper-cased, read with one they are kept as typed
TopHeaders(sheet) ==
    IF sheet.multi THEN {Upper(h) : h \in sheet.top} ELSE sheet.top

\* df[channel]'s columns
SubColumns(sheet, channel) ==
    IF sheet.multi
    THEN UNION { {Upper(c) : c \in sheet.sub[h]} :
                   h \in {h \in DOMAIN sheet.sub : Upper(h) = channel} }
    ELSE {}

\* lines 166 on, for a frame that has the required columns
CheckChannels(sheet, top_headers, synth) ==
    LET channels == (top_headers \ REQUIRED_COLUMNS) \ OPTIONAL
        \* the columns line 204 converts to float
        converted == {c \in channels : SubColumns(sheet, c) \cap PGM_COLS # {}}
        found == Col_INTENSITY \in top_headers \/ converted # {}
    IN  IF ~ChannelsValid(channels) THEN Raised("InvalidChannelGrouping")
        ELSE IF converted # {} /\ sheet.cells = "text" THEN Raised("ValueError")
        ELSE IF ~found THEN Raised("NoMeasurementData")
        ELSE [error |-> "none",
              df |-> [multi |-> sheet.multi, top |-> top_headers,
                      sub |-> [c \in channels |-> SubColumns(sheet, c)],
                      station_from_index |-> synth]]

\* read_excel(excelfile): the frame returned or the error raised.  The
\* KeyErrors of lines 120, 163, 190 and 211 are "MissingReferenceHeader",
\* "MissingRequiredColumns", "InvalidChannelGrouping", "NoMeasurementData".
ReadExcel(sheet) ==
    IF Lower(sheet.a1) # <<"r", "e", "f", "e", "r", "e", "n", "c", "e">>
    THEN Raised("MissingReferenceHeader")
    ELSE LET top_headers == TopHeaders(sheet)
             synth == Col_STATION \notin top_headers
         IN  \* line 160: a frame read with one header row has no levels
             IF synth /\ ~sheet.multi THEN Raised("AttributeError")
             ELSE IF ~(REQUIRED_COLUMNS \subseteq (top_headers \cup {Col_STATION}))
             THEN Raised("MissingRequiredColumns")
             ELSE CheckChannels(sheet, top_headers \cup {Col_STATION}, synth)

\* the sheets read
Sheets(a1, multi, columns, channels, cells) ==
    { [a1 |-> a1, multi |-> multi, top |-> columns \cup channels,
       sub |-> s, cells |-> cells] :
         s \in [channels -> IF multi THEN SubHeaders ELSE {{}}] }

read_excel ==
    /\ wb = NoSheet
    /\ \E a1 \in ReferenceCells, multi \in BOOLEAN, cells \in CellKinds,
          req \in SUBSET {Col_STATION, Col_LAT, Col_NETID},
          opt \in SUBSET {Col_INTENSITY},
          channels \in {S \in SUBSET ChannelNames : Cardinality(S) <= MaxChannels} :
         \E sheet \in Sheets(a1, multi, req \cup {Col_LON} \cup opt, channels, cells) :
            /\ wb' = sheet
            /\ outcome' = ReadExcel(sheet)

ReadInit ==
    /\ wb = NoSheet
    /\ outcome = Raised("none")

-----------------------------------------------------------------------------
(* dataframe_to_json and dataframe_to_xml *)

\* most rows in a table
MaxRows == 3

\* a pattern of CHANNEL_PATTERNS is anchored at both ends; inside a character
\* class the comma is a character like any other
CHANNEL_PATTERNS == << <<{"H", ",", "B"}, {"H", ",", "L", "N"},
                         {"E", ",", "N", "Z", "1", "2", "3"}>>,
                       <<{"H"}, {"1", ",", "2"}>>,
                       <<{"Z"}>> >>

\* re.search(cmatch, column) is not None
ReSearch(cmatch, column) == Len(column) = Len(cmatch) /\ ReMatch(cmatch, column)

get_channels(columns) ==
    {column \in columns :
        \E i \in 1 .. Len(CHANNEL_PATTERNS) : ReSearch(CHANNEL_PATTERNS[i], column)}

Digits == <<"0", "1", "2", "3", "4", "5", "6", "7", "8", "9">>

IsDigit(c) == \E i \in 1 .. 10 : Digits[i] = c

DigitValue(c) == (CHOOSE i \in 1 .. 10 : Digits[i] = c) - 1

\* the code point of a character of a column name
Ord(c) ==
    IF c = "," THEN 44
    ELSE IF IsDigit(c) THEN 48 + DigitValue(c)
    ELSE 64 + (CHOOSE i \in 1 .. 26 : UpperLetters[i] = c)

\* a < b for str
StrLess(a, b) ==
    \/ Len(a) < Len(b) /\ \A i \in 1 .. Len(a) : a[i] = b[i]
    \/ \E k \in 1 .. Len(a) :
          /\ k <= Len(b)
          /\ \A i \in 1 .. k - 1 : a[i] = b[i]
          /\ Ord(a[k]) < Ord(b[k])

RECURSIVE Sorted(_)
\* sorted(list(channels))
Sorted(channels) ==
    IF channels = {} THEN <<>>
    ELSE LET first == CHOOSE c \in channels :
                         \A d \in channels \ {c} : StrLess(c, d)
         IN  <<first>> \o Sorted(channels \ {first})

RECURSIVE Strip(_)
\* str.strip()
Strip(s) ==
    IF s = <<>> THEN s
    ELSE IF Head(s) = " " THEN Strip(Tail(s))
    ELSE IF s[Len(s)] = " " THEN Strip(SubSeq(s, 1, Len(s) - 1))
    ELSE s

\* stationcode of lines 273-277 and 432-436
StationCode(row) ==
    LET stationcode == Strip(row.STATION)
        netid == Strip(row.NETID)
    IN  IF ~StartsWith(stationcode, netid)
        THEN netid \o <<".">> \o stationcode
        ELSE stationcode

\* stationcode.split('.')[-1]
LastPart(stationcode) ==
    LET dots == {i \in 1 .. Len(stationcode) : stationcode[i] = "."}
    IN  IF dots = {} THEN stationcode
        ELSE SubSeq(stationcode,
                    (CHOOSE i \in dots : \A j \in dots : j <= i) + 1,
                    Len(stationcode))

RECURSIVE Decimal(_)
\* the number a run of digits writes
Decimal(digits) ==
    IF digits = <<>> THEN 0
    ELSE 10 * Decimal(SubSeq(digits, 1, Len(digits) - 1))
            + DigitValue(digits[Len(digits)])

RECURSIVE Pow10(_)
Pow10(n) == IF n = 0 THEN 1 ELSE 10 * Pow10(n - 1)

\* the longest run of digits of s that starts at position i (empty when
\* there is no digit there)
DigitRun(s, i) ==
    LET ends == {j \in i .. Len(s) : \A k \in i .. j : IsDigit(s[k])}
    IN  IF ends = {} THEN <<>>
        ELSE SubSeq(s, i, CHOOSE j \in ends : \A k \in ends : k <= j)

\* the positions of s that hold a digit
DigitStarts(s) == {i \in 1 .. Len(s) : IsDigit(s[i])}

Least(S) == CHOOSE i \in S : \A j \in S : i <= j

\* the element of a set of one element: The({e(x) : x \in {v}}) is e of v,
\* with v worked out once
The(S) == CHOOSE x \in S : TRUE

\* FLOATRE matches at position i of s
FloatAt(s, i) ==
    LET unsigned(j) == \/ j <= Len(s) /\ IsDigit(s[j])
                       \/ j < Len(s) /\ s[j] = "." /\ IsDigit(s[j + 1])
    IN  \/ unsigned(i)
        \/ s[i] \in {"+", "-"} /\ unsigned(i + 1)

\* the number the digits whole and, after the dot, fraction write
Fraction(whole, fraction) ==
    Rat(Decimal(whole) * Pow10(Len(fraction)) + Decimal(fraction),
        Pow10(Len(fraction)))

\* the number FLOATRE matches at position from of imt, where no sign stands:
\* digits, then a dot and digits where a digit follows the dot
Unsigned(imt, from, whole) ==
    Fraction(whole,
             IF from + Len(whole) < Len(imt) /\ imt[from + Len(whole)] = "."
             THEN DigitRun(imt, from + Len(whole) + 1)
             ELSE <<>>)

\* the number FLOATRE matches at position start of imt
Signed(imt, start) ==
    IF imt[start] = "-"
    THEN RatSub(<<0, 1>>, Unsigned(imt, start + 1, DigitRun(imt, start + 1)))
    ELSE IF imt[start] = "+"
    THEN Unsigned(imt, start + 1, DigitRun(imt, start + 1))
    ELSE Unsigned(imt, start, DigitRun(imt, start))

\* float(re.search(FLOATRE, imt).group()), as an exact fraction
FloatValue(imt) == Signed(imt, Least({i \in 1 .. Len(imt) : FloatAt(imt, i)}))

\* the output fields the writers loop over
PGMS == << <<"p", "g", "a">>, <<"p", "g", "v">>, <<"p", "s", "a", "0", "3">>,
          <<"p", "s", "a", "1", "0">>, <<"p", "s", "a", "3", "0">> >>

\* _translate_imt(oldimt, imtlist): the name returned, or the
\* UnboundLocalError of line 555 when the loop of lines 544-552 assigned
\* nothing to newimt
translate_imt(oldimt, imtlist) ==
    IF Upper(oldimt) \in {Pga, Pgv}
    THEN [error |-> "none", newimt |-> Upper(oldimt)]
    ELSE IF DigitStarts(oldimt) = {}
    THEN [error |-> "none", newimt |-> <<>>]
    ELSE LET period == Rat(Decimal(DigitRun(oldimt, Least(DigitStarts(oldimt)))), 10)
             hits == {i \in 1 .. Len(imtlist) :
                         /\ StartsWith(imtlist[i], <<"S", "A">>)
                         /\ \E j \in 1 .. Len(imtlist[i]) : FloatAt(imtlist[i], j)
                         /\ FloatValue(imtlist[i]) = period}
         IN  IF hits = {} THEN [error |-> "UnboundLocalError", newimt |-> <<>>]
             ELSE [error |-> "none", newimt |-> imtlist[Least(hits)]]

\* the column that marks the alternate shape (one row per station, channel
\* and imt)
col_imt == <<"i", "m", "t">>

\* lines 303-342: the property each column is copied to
JsonProperties ==
    { <<Col_NAME, "name">>, <<Col_NETID, "network">>, <<Col_DISTANCE, "distance">>,
      <<Col_INTENSITY, "intensity">>, <<Col_NRESP, "nresp">>,
      <<Col_INTENSITY_STDDEV, "intensity_stddev">>, <<Col_SOURCE, "source">>,
      <<Col_LOC, "location">>, <<Col_INSTTYPE, "type">>,
      << <<"P", "R", "O", "V", "I", "D", "E", "R">>, "provider">>,
      << <<"I", "N", "S", "T", "R", "U", "M", "E", "N", "T">>, "instrument">>,
      << <<"S", "E", "R", "I", "A", "L">>, "serial">>,
      << <<"P", "E", "R", "I", "O", "D">>, "period">>,
      << <<"D", "A", "M", "P", "I", "N", "G">>, "damping">>,
      << <<"S", "E", "N", "S", "I", "T", "I", "V", "I", "T", "Y">>, "sensitivity">>,
      << <<"S", "O", "U", "R", "C", "E", "_", "F", "O", "R", "M", "A", "T">>, "source_format">>,
      << <<"S", "T", "R", "U", "C", "T", "U", "R", "E">>, "structure">> }

\* lines 454-473: the attribute each column is copied to
XmlAttributes ==
    { <<Col_NAME, "name">>, <<Col_NETID, "netid">>, <<Col_DISTANCE, "dist">>,
      <<Col_INTENSITY, "intensity">>, <<Col_NRESP, "nresp">>,
      <<Col_INTENSITY_STDDEV, "intensity_stddev">>, <<Col_SOURCE, "source">>,
      <<Col_LOC, "loc">>, <<Col_INSTTYPE, "insttype">>, <<Col_ELEV, "elev">> }

\* the names a table of pairs gives for the columns present
Copied(pairs, columns) == {p[2] : p \in {q \in pairs : q[1] \in columns}}

\* a frame: its top-level columns, the measurement columns under each
\* channel in sheet order, whether the measurement cells are empty, and of
\* each row the cells the writers branch on
NoTable == [multi |-> FALSE, top |-> {}, sub |-> <<>>, nan |-> FALSE, rows |-> <<>>]

NoOutput == [writer |-> "none", error |-> "none", stations |-> <<>>]

\* what a writer leaves behind: the stations written, or nothing when it
\* raised before the file was written
Written(writer, error, stations) ==
    [writer |-> writer, error |-> error,
     stations |-> IF error = "none" THEN stations ELSE <<>>]

\* lines 258-265 and 409-416
Channels(df) ==
    IF df.multi THEN get_channels((df.top \ REQUIRED_COLUMNS) \ OPTIONAL) ELSE {}

\* channel[-1] in ['1', '2', 'E', 'N']
Orientation(channel) ==
    IF channel[Len(channel)] \in {"1", "2", "E", "N"} THEN "h" ELSE "z"

\* the measurement columns under each channel
WriterSubs == { <<Pga>>, <<Pga, Sa03, Sa10, Sa30>>,
                <<Pga, <<"P", "S", "A", "0", "3">>, <<"P", "S", "A", "1", "0">>,
                  <<"P", "S", "A", "3", "0">> >> }

\* _translate_imt of each output field, for each list of measurement columns
\* a table of the model has
Translated ==
    [imtlist \in WriterSubs |->
        [i \in 1 .. Len(PGMS) |-> translate_imt(PGMS[i], imtlist)]]

RECURSIVE Amplitudes(_, _, _, _)
\* the loop over the output fields (lines 352-362 and 495-507) from field i
\* on, for a channel with the measurement columns imtlist: the fields
\* written, in order, or the error _translate_imt raised
Amplitudes(imtlist, nan, i, pgms) ==
    IF i > Len(PGMS) THEN [error |-> "none", pgms |-> pgms]
    ELSE LET translated == Translated[imtlist][i]
             newpgm == translated.newimt
             c1 == ~\E k \in 1 .. Len(imtlist) : imtlist[k] = newpgm
             c2 == IF ~c1 THEN nan ELSE FALSE
         IN  IF translated.error # "none"
             THEN [error |-> translated.error, pgms |-> <<>>]
             ELSE IF c1 \/ c2 THEN Amplitudes(imtlist, nan, i + 1, pgms)
             ELSE Amplitudes(imtlist, nan, i + 1, Append(pgms, PGMS[i]))

RECURSIVE Comps(_, _, _, _, _)
\* the loop over the channels (lines 347-362 and 479-507) from channel i on
Comps(writer, df, channels, i, comps) ==
    IF i > Len(channels) THEN [error |-> "none", channels |-> comps]
    ELSE The({ IF amplitudes.error # "none"
               THEN [error |-> amplitudes.error, channels |-> <<>>]
               ELSE Comps(writer, df, channels, i + 1,
                          Append(comps,
                                 [name |-> Upper(channels[i]),
                                  orientation |-> IF writer = "xml"
                                                  THEN Orientation(channels[i])
                                                  ELSE "",
                                  pgms |-> amplitudes.pgms])) :
               amplitudes \in {Amplitudes(df.sub[channels[i]], df.nan, 1, <<>>)} })

\* the channels of a row: sorted(list(channels)) and the loop over them
RowComps(writer, df) ==
    {Comps(writer, df, channels, 1, <<>>) : channels \in {Sorted(Channels(df))}}

\* lines 287-366: the feature of one row
JsonStation(df, row, stationcode) ==
    IF Col_ELEV \notin df.top THEN [error |-> "KeyError"]
    ELSE The({ IF comps.error # "none" THEN [error |-> comps.error]
               ELSE [error |-> "none",
                     station |->
                       [code |-> LastPart(stationcode),
                        network |-> Strip(row.NETID),
                        written |-> {"code", "location", "serial"}
                                       \cup Copied(JsonProperties, df.top),
                        channels |-> comps.channels]] :
               comps \in RowComps("json", df) })

RECURSIVE Unique(_)
\* Series.unique(): the values in order of first appearance
Unique(s) ==
    IF s = <<>> THEN <<>>
    ELSE LET front == Unique(SubSeq(s, 1, Len(s) - 1))
         IN  IF \E i \in 1 .. Len(front) : front[i] = s[Len(s)]
             THEN front ELSE Append(front, s[Len(s)])

\* lines 509-527: the comp elements of a station of the alternate shape
ImtComps(df, row) ==
    LET scode == row.STATION
        station_rows == SelectSeq(df.rows, LAMBDA r : r.STATION = scode)
        channels == Unique([i \in 1 .. Len(station_rows) |-> station_rows[i].channel])
    IN  [i \in 1 .. Len(channels) |->
           LET channel_rows == SelectSeq(station_rows,
                                         LAMBDA r : r.channel = channels[i])
           IN  [name |-> Upper(channels[i]),
                orientation |-> "",
                pgms |-> [k \in 1 .. Len(channel_rows) |-> channel_rows[k].imt]]]

\* lines 447-529: the station element of one row
XmlStation(df, row, stationcode) ==
    IF col_imt \notin df.top
    THEN The({ IF comps.error # "none" THEN [error |-> comps.error]
               ELSE [error |-> "none",
                     station |->
                       [code |-> stationcode,
                        network |-> Strip(row.NETID),
                        written |-> {"code", "lat", "lon"}
                                       \cup Copied(XmlAttributes, df.top),
                        channels |-> comps.channels]] :
               comps \in RowComps("xml", df) })
    ELSE [error |-> "none",
          station |-> [code |-> stationcode,
                       network |-> Strip(row.NETID),
                       written |-> {"code", "lat", "lon"}
                                      \cup Copied(XmlAttributes, df.top),
                       channels |-> ImtComps(df, row)]]

\* the station a writer makes of a row
Station(writer, df, row, stationcode) ==
    IF writer = "json" THEN JsonStation(df, row, stationcode)
    ELSE XmlStation(df, row, stationcode)

RECURSIVE Rows(_, _, _, _, _)
\* the loop over the rows (lines 267-367 and 426-529) from row i on
Rows(writer, df, i, processed_stations, stations) ==
    IF i > Len(df.rows) THEN Written(writer, "none", stations)
    ELSE The({ IF \E k \in 1 .. Len(processed_stations) :
                     processed_stations[k] = stationcode
               THEN Rows(writer, df, i + 1, processed_stations, stations)
               ELSE The({ IF made.error # "none"
                          THEN Written(writer, made.error, <<>>)
                          ELSE Rows(writer, df, i + 1,
                                    Append(processed_stations, stationcode),
                                    Append(stations, made.station)) :
                          made \in {Station(writer, df, df.rows[i], stationcode)} }) :
               stationcode \in {StationCode(df.rows[i])} })

\* the STATION and NETID cells of a row
RowKeys == { [STATION |-> <<"A">>, NETID |-> <<"N", "Z">>],
             [STATION |-> <<"N", "Z", ".", "A">>, NETID |-> <<"N", "Z">>],
             [STATION |-> <<"B">>, NETID |-> <<"N", "Z">>],
             [STATION |-> <<"A", " ">>, NETID |-> <<"U", "S">>],
             [STATION |-> <<"U", "S", "B">>, NETID |-> <<"U", "S">>] }

\* the channel columns of a table given to a writer
WriterChannels == { <<"H", "H", "E">>, <<"H", "1">>, <<"U", "N", "K">> }

\* the optional columns a table given to a writer may have
WriterOptional == {Col_ELEV, Col_NAME}

\* the shapes of table the writers take: as read_excel returns it with and
\* without channel columns, and the alternate shape
Shapes == {"grouped", "flat", "imt"}

\* the rows a table of a shape may have
ShapeRows(shape) ==
    { [STATION |-> k.STATION, NETID |-> k.NETID, channel |-> c,
       imt |-> IF shape = "imt" THEN PGMS[1] ELSE <<>>] :
        k \in RowKeys,
        c \in IF shape = "imt" THEN {<<"H", "H", "E">>, <<"H", "H", "Z">>}
              ELSE {<<>>} }

Table(shape, opt, channels, sub, nan, rows) ==
    [multi |-> shape = "grouped",
     top |-> REQUIRED_COLUMNS \cup opt \cup channels
               \cup IF shape = "imt"
                    THEN {col_imt, <<"c", "h", "a", "n", "n", "e", "l">>,
                          <<"v", "a", "l", "u", "e">>, <<"f", "l", "a", "g">>}
                    ELSE {},
     sub |-> [c \in channels |-> sub], nan |-> nan, rows |-> rows]

\* a writer called with some table
Write(writer) ==
    /\ frame = NoTable
    /\ \E shape \in Shapes, opt \in SUBSET WriterOptional :
         \E channels \in IF shape = "grouped"
                           THEN (SUBSET WriterChannels) \ {{}} ELSE {{}},
            sub \in IF shape = "grouped" THEN WriterSubs ELSE {<<>>},
            nan \in IF shape = "grouped" THEN BOOLEAN ELSE {FALSE},
            rows \in SeqsUpTo(ShapeRows(shape), MaxRows) :
              /\ frame' = Table(shape, opt, channels, sub, nan, rows)
              /\ written' = Rows(writer, frame', 1, <<>>, <<>>)

dataframe_to_json == Write("json")

dataframe_to_xml == Write("xml")

WriteInit ==
    /\ frame = NoTable
    /\ written = NoOutput

-----------------------------------------------------------------------------
(* Specifications *)

vars == <<palvars, readvars, writevars>>

Init == PaletteInit /\ ReadInit /\ WriteInit

\* one palette, from its construction on
Next ==
    /\ \/ New
       \/ \E preset \in Presets : fromPreset(preset)
       \/ \E f \in Files : fromFile(f)
       \/ \E v \in SetVals : vmin(v)
       \/ \E v \in SetVals : vmax(v)
       \/ \E v \in Values : getDataColor(v)
    /\ UNCHANGED <<readvars, writevars>>

Spec == Init /\ [][Next]_vars

\* the constructor alone, on sequences of any lengths
NextCtor == NewAnyLengths /\ UNCHANGED <<readvars, writevars>>

SpecCtor == Init /\ [][NextCtor]_vars

\* palettes built one after another, from presets and from single
\* intervals, rescaled and queried in between
NextRegistry ==
    /\ \/ calls < MaxCalls /\ Construct(1)
       \/ \E preset \in Presets : calls < MaxCalls /\ Preset(preset)
       \/ \E v \in SetVals : vmin(v)
       \/ \E v \in SetVals : vmax(v)
       \/ \E v \in Values : getDataColor(v)
    /\ UNCHANGED <<readvars, writevars>>

SpecRegistry == Init /\ [][NextRegistry]_vars

\* one call of read_excel
NextRead == read_excel /\ UNCHANGED <<palvars, writevars>>

SpecRead == Init /\ [][NextRead]_vars

\* one call of a writer
NextWrite ==
    /\ \/ dataframe_to_json
       \/ dataframe_to_xml
    /\ UNCHANGED <<palvars, readvars>>

SpecWrite == Init /\ [][NextWrite]_vars

-----------------------------------------------------------------------------
(* Claims about ColorPalette *)

Constructed == last \in {"init", "fromPreset", "fromFile"}

SameLengths(a) ==
    Len(a.z0) = Len(a.z1) /\ Len(a.z1) = Len(a.rgb0) /\ Len(a.rgb0) = Len(a.rgb1)

\* C1: a construction from four sequences that are not all of the same
\* length fails with LengthMismatch, whichever of the lengths differ.
C1_MismatchRejected ==
    (Constructed /\ ~SameLengths(args)) => err = "LengthMismatch"

\* C2: when v_min equals v_max, the operation that normalises by
\* v_max - v_min (the construction, or getDataColor) fails instead of
\* dividing by zero: it raises, and leaves no palette and no colour.
C2_DegenerateDomainFails ==
    /\ (Constructed /\ Len(args.z0) >= 1 /\ SameLengths(args)
          /\ SeqMin(args.z0) = SeqMax(args.z1))
         => (err # "none" /\ ~pal.built)
    /\ (last = "getDataColor" /\ pal.vmin = pal.vmax)
         => (err # "none" /\ result.kind = "error")

\* the RGBA colour of an RGB triplet of 0..255 values
Rgba(c) == <<Rat(c[1], 255), Rat(c[2], 255), Rat(c[3], 255), <<1, 1>> >>

Returned(c) == result = [kind |-> "rgba", rgba |-> c, error |-> ""]

\* the palette still has the range it was constructed with
AsConstructed == pal.built /\ pal.vminNp /\ pal.vmaxNp

WellOrdered(a) ==
    LET n == Len(a.z0)
        d == SeqMax(a.z1) - SeqMin(a.z0)
    IN  /\ n >= 1
        /\ d # 0
        /\ a.z0[1] = SeqMin(a.z0)
        /\ a.z1[n] = SeqMax(a.z1)
        /\ \A i \in 1 .. n - 1 : (a.z0[i + 1] - a.z0[i]) * d >= 0
        /\ (a.z1[n] - a.z0[n]) * d >= 0

\* the colour one 51st of the way from c0 to c1
OneFiftyFirst(c0, c1) ==
    <<Rat(50 * c0[1] + c1[1], 51 * 255), Rat(50 * c0[2] + c1[2], 51 * 255),
      Rat(50 * c0[3] + c1[3], 51 * 255), <<1, 1>> >>

C4_RescaleKeepsTable ==
    pal.built =>
      \A table \in {BuildCdict(args.z0, args.z1, args.rgb0, args.rgb1)} :
          /\ pal.cdict = table
          /\ (last = "getDataColor" /\ pal.vmin # pal.vmax) =>
                result = CmapCall(table, pal.nan_color,
                                  Rat(value - pal.vmin, pal.vmax - pal.vmin))

\* both bounds were reassigned, to a range other than the constructed one,
\* before a colour was looked up
C4_Witness ==
    /\ last = "getDataColor" /\ pal.built
    /\ ~pal.vminNp /\ ~pal.vmaxNp
    /\ pal.vmin # SeqMin(args.z0) /\ pal.vmax # SeqMax(args.z1)
    /\ pal.vmin # pal.vmax
    /\ result.kind = "rgba"
    /\ result # DataColor(NewPalette(pal.name, args.z0, args.z1, args.rgb0,
                                     args.rgb1, pal.nan_color), value)

\* the value of the last line of `lines` that defines `variable`
RECURSIVE LastDefined(_, _, _)
LastDefined(lines, variable, default) ==
    IF lines = <<>> THEN default
    ELSE LET line == lines[Len(lines)]
         IN  IF line.directive = variable THEN line
             ELSE LastDefined(SubSeq(lines, 1, Len(lines) - 1), variable, default)

\* C5: fromFile applies both directives: '#$nan_color:' sets the nan
\* colour and '#$name:' the name; without them (0,0,0,0) and 'generic'.
C5_DirectivesApplied ==
    LET none == [directive |-> "", color |-> <<0, 0, 0, 0>>, text |-> "generic"]
    IN  (last = "fromFile" /\ pal.built) =>
          /\ pal.nan_color = LastDefined(file.lines, "nan_color", none).color
          /\ pal.name = LastDefined(file.lines, "name", none).text

-----------------------------------------------------------------------------
(* Claims about read_excel *)

WasRead == wb # NoSheet

\* the channel columns of the sheet read
SheetChannels == (TopHeaders(wb) \ REQUIRED_COLUMNS) \ OPTIONAL

\* the call got as far as the test of the channel grouping
ReachedChannels ==
    /\ WasRead
    /\ outcome.error \notin {"MissingReferenceHeader", "AttributeError",
                             "MissingRequiredColumns"}

\* the sub-patterns of scheme g that match some channel
Matched(g, channels) ==
    {i \in 1 .. Len(CHANNEL_GROUPS[g]) :
        \E c \in channels : ReMatch(CHANNEL_GROUPS[g][i], c)}

C7_OneScheme ==
    (WasRead /\ outcome.error = "none") =>
        \E g \in 1 .. 4 :
            \A c \in SheetChannels :
                \E i \in 1 .. Len(CHANNEL_GROUPS[g]) : ReMatch(CHANNEL_GROUPS[g][i], c)

\* the measurement columns the docstring of read_excel names
DocumentedPgm == {<<"P", "G", "A">>, <<"P", "G", "V">>, <<"P", "S", "A", "0", "3">>, <<"P", "S", "A", "1", "0">>, <<"P", "S", "A", "3", "0">>}

\* C8: a table that passes the header, required-column and grouping checks
\* fails with NoMeasurementData exactly when it has no INTENSITY column and
\* no channel has a measurement column of the documented names.
C8_NoMeasurementData ==
    (ReachedChannels /\ outcome.error # "InvalidChannelGrouping") =>
        (outcome.error = "NoMeasurementData"
           <=> /\ Col_INTENSITY \notin TopHeaders(wb)
               /\ \A c \in SheetChannels :
                     SubColumns(wb, c) \cap DocumentedPgm = {})

\* C9: a table, of either header shape, that lacks required columns either
\* fails with MissingRequiredColumns or, when only STATION is missing,
\* goes on with a STATION column made from the row positions; nothing
\* else is raised on account of the missing columns.
C9_MissingRequired ==
    LET missing == REQUIRED_COLUMNS \ TopHeaders(wb)
    IN  (WasRead /\ outcome.error # "MissingReferenceHeader" /\ missing # {}) =>
            \/ outcome.error = "MissingRequiredColumns"
            \/ /\ missing = {Col_STATION}
               /\ outcome.error \in {"none", "InvalidChannelGrouping",
                                     "NoMeasurementData", "ValueError"}
               /\ outcome.error = "none" => outcome.df.station_from_index

-----------------------------------------------------------------------------
(* Claims about the writers *)

WasWritten == written.writer # "none"

\* the station code of a row as the contract words it, on the cells without
\* the blanks around them
ComputedCode(row) ==
    IF StartsWith(Strip(row.STATION), Strip(row.NETID))
    THEN Strip(row.STATION)
    ELSE Strip(row.NETID) \o <<".">> \o Strip(row.STATION)

\* the rows whose code no earlier row has
FirstRows(rows) ==
    {i \in 1 .. Len(rows) :
        \A j \in 1 .. i - 1 : ComputedCode(rows[j]) # ComputedCode(rows[i])}

\* the distinct codes of the rows, in order of first occurrence
FirstCodes(rows) ==
    [k \in 1 .. Cardinality(FirstRows(rows)) |->
        ComputedCode(rows[CHOOSE i \in FirstRows(rows) :
                             Cardinality({j \in FirstRows(rows) : j < i}) = k - 1])]

\* the code an entry for a station carries: the XML writer writes the code,
\* the JSON writer its part after the last dot beside the network
EntryCode(writer, code) == IF writer = "json" THEN LastPart(code) ELSE code

\* C10: whatever the rows, each writer emits exactly one station entry for
\* each distinct computed station code, in order of first occurrence, and
\* nothing for a later row of a code already processed.
C10_OneEntryPerCode ==
    WasWritten =>
       /\ Len(written.stations) = Len(FirstCodes(frame.rows))
       /\ \A k \in 1 .. Len(written.stations) :
             written.stations[k].code
                = EntryCode(written.writer, FirstCodes(frame.rows)[k])

\* C11: whatever output field is asked for and whatever measurement columns
\* a channel has, name translation never aborts the writer: a field with no
\* matching column is skipped and writing goes on with the next one.
C11_TranslationNeverAborts ==
    WasWritten => written.error # "UnboundLocalError"

\* the channel columns of the table written
FrameChannels == (frame.top \ REQUIRED_COLUMNS) \ OPTIONAL

\* read_excel returns such a table: its channel columns pass the grouping
\* test and a channel has one of the measurement columns
AcceptedGrouped ==
    /\ frame.multi
    /\ FrameChannels # {}
    /\ ChannelsValid(FrameChannels)
    /\ \E c \in FrameChannels :
          \E k \in 1 .. Len(frame.sub[c]) : frame.sub[c][k] \in PGM_COLS

\* C12: for a channel-grouped table that read_excel accepts, the XML writer
\* gives every station element exactly one comp child per channel column,
\* UNK included, named after the channel, with orientation h when the name
\* ends in 1, 2, E or N and z otherwise.
C12_OneCompPerChannel ==
    (WasWritten /\ written.writer = "xml" /\ written.error = "none"
       /\ AcceptedGrouped) =>
       \A k \in 1 .. Len(written.stations) :
          /\ Len(written.stations[k].channels) = Cardinality(FrameChannels)
          /\ {written.stations[k].channels[j].name :
                j \in 1 .. Len(written.stations[k].channels)} = FrameChannels
          /\ \A j \in 1 .. Len(written.stations[k].channels) :
                written.stations[k].channels[j].orientation
                   = IF written.stations[k].channels[j].name[
                           Len(written.stations[k].channels[j].name)]
                          \in {"1", "2", "E", "N"}
                     THEN "h" ELSE "z"

\* C13: on a table with the four required columns and any of the optional
\* ones (and measurement names that all translate), both writers end without
\* an error; an optional column that is there is copied to every station and
\* one that is not there, ELEV included, is left out.
C13_OptionalColumns ==
    (WasWritten /\ written.error # "UnboundLocalError") =>
       /\ written.error = "none"
       /\ \A k \in 1 .. Len(written.stations) :
             /\ "name" \in written.stations[k].written <=> Col_NAME \in frame.top
             /\ written.writer = "xml" =>
                  ("elev" \in written.stations[k].written <=> Col_ELEV \in frame.top)

-----------------------------------------------------------------------------
(* Claims about the table of ColorPalette *)

\* (z - v_min) / (v_max - v_min) for the sequences the palette was built from
Adjusted(z) == Rat(z - SeqMin(args.z0), SeqMax(args.z1) - SeqMin(args.z0))

\* the rows after the first of a channel's table are as the contract words
\* them: row i in 1..N-1 at adjusted z0[i] arriving with rgb1[i-1]/255 and
\* leaving with rgb0[i]/255, the last row at adjusted z1[N-1] arriving with
\* rgb1[N-1]/255
LaterRows(rows, c) ==
    LET n == Len(args.z0)
    IN  /\ Len(rows) = n + 1
        /\ rows[1][1] = Adjusted(args.z0[1])
        /\ rows[1][3] = Rat(args.rgb0[1][c], 255)
        /\ \A i \in 2 .. n :
              /\ rows[i][1] = Adjusted(args.z0[i])
              /\ rows[i][2] = Rat(args.rgb1[i - 1][c], 255)
              /\ rows[i][3] = Rat(args.rgb0[i][c], 255)
        /\ rows[n + 1][1] = Adjusted(args.z1[n])
        /\ rows[n + 1][2] = Rat(args.rgb1[n][c], 255)

\* the table of channel c of the palette
ChannelTable(c) ==
    IF c = 1 THEN pal.cdict.red ELSE IF c = 2 THEN pal.cdict.green ELSE pal.cdict.blue

\* C14 as stated: for N intervals each of the red, green and blue tables has
\* N+1 rows (position, arriving, leaving) as above, and row 0 arrives with
\* rgb1[0]/255.
C14_TableRowsArrivingFirst ==
    (pal.built /\ SameLengths(args)) =>
       \A c \in 1 .. 3 :
          /\ LaterRows(ChannelTable(c), c)
          /\ ChannelTable(c)[1][2] = Rat(args.rgb1[1][c], 255)

\* C14: for N intervals each of the red, green and blue tables has N+1 rows
\* (position, arriving, leaving) as above; the arriving value of row 0 and
\* the leaving value of the last row are the placeholders -0.999 and 0.999.
C14_TableRows ==
    (pal.built /\ SameLengths(args)) =>
       \A c \in 1 .. 3 :
          /\ LaterRows(ChannelTable(c), c)
          /\ ChannelTable(c)[1][2] = <<-999, 1000>>
          /\ ChannelTable(c)[Len(args.z0) + 1][3] = <<999, 1000>>

\* a palette of two intervals that start above zero
C14_Witness ==
    /\ pal.built
    /\ last = "init"
    /\ Len(args.z0) = 2
    /\ SeqMin(args.z0) = 1
    /\ Len(pal.cdict.red) = 3

\* 0 <= q <= 1 for a fraction q
InUnit(q) == IsFinite(q) /\ ~RatLess(q, <<0, 1>>) /\ ~RatLess(<<1, 1>>, q)

\* C15: for sequences of one length with min(z0) < max(z1) and colours in
\* 0..255, sorted or not, every row of every channel's table has its
\* position and its arriving and leaving values in [0,1] (the two
\* placeholders, which are never sampled, aside), and the positions never
\* decrease from row to row.
C15_TableInUnitInterval ==
    (pal.built /\ SameLengths(args) /\ SeqMin(args.z0) < SeqMax(args.z1)) =>
       \A c \in 1 .. 3 :
          /\ \A i \in 1 .. Len(ChannelTable(c)) :
                /\ InUnit(ChannelTable(c)[i][1])
                /\ i > 1 => InUnit(ChannelTable(c)[i][2])
                /\ i < Len(ChannelTable(c)) => InUnit(ChannelTable(c)[i][3])
          /\ \A i \in 1 .. Len(ChannelTable(c)) - 1 :
                ~RatLess(ChannelTable(c)[i + 1][1], ChannelTable(c)[i][1])


-----------------------------------------------------------------------------
(* Claims about the preset registry and the caller's lists *)

\* the table ColorPalette builds from the registry's first entry for a preset
PresetTable(preset) ==
    BuildCdict(PALETTES[preset].z0, PALETTES[preset].z1,
               PALETTES[preset].rgb0, PALETTES[preset].rgb1)

=============================================================================
